---- MODULE Spec2Model ----
(***************************************************************************)
(* Model of lerobot/common/policies/dit/modeling_dit.py: the receding-     *)
(* horizon queue protocol of DiTPolicy (reset / select_action), the        *)
(* sampling path of DiT (generate_actions / conditional_sample) and the    *)
(* configuration selectors (_make_noise_scheduler, compute_loss target,    *)
(* _make_norm, _construct_resnet, get_activation_fn).                      *)
(*                                                                         *)
(* Tensors are abstracted to tokens that keep what the protocol can        *)
(* observe: which observation an entry came from, which sampling call and  *)
(* which trajectory index an action came from.                             *)
(***************************************************************************)
EXTENDS Integers, Sequences, FiniteSets, TLC

VARIABLES cfg, batch_size, pc, queues, resets, calls, total, history,
          refills, genCount, genAtReset, traj, refillAt, last, sel, loss, net

vars == <<cfg, batch_size, pc, queues, resets, calls, total, history,
          refills, genCount, genAtReset, traj, refillAt, last, sel, loss, net>>

(***************************************************************************)
(* Bounds of the model.                                                    *)
(***************************************************************************)
MaxObsSteps == 2
MaxActionSteps == 3
MaxHorizon == 4
MaxTrainTimesteps == 2
MaxBatch == 2
MaxObsVal == 2
MaxCalls == 5
MaxResets == 1

ObsValues == 1..MaxObsVal

Min(a, b) == IF a <= b THEN a ELSE b

(***************************************************************************)
(* Configuration (DiTConfig fields read by modeling_dit.py).               *)
(* num_inference_steps is <<>> for None and <<n>> for the number n.        *)
(***************************************************************************)
InferenceChoices(ntt) == {<<>>} \cup {<<n>> : n \in 1..ntt}

AllConfigs ==
    { [n_obs_steps |-> o, n_action_steps |-> a, horizon |-> h,
       image_features |-> im, env_state_feature |-> ev,
       num_train_timesteps |-> ntt, num_inference_steps |-> nis] :
        o \in 1..MaxObsSteps, a \in 1..MaxActionSteps, h \in 1..MaxHorizon,
        im \in BOOLEAN, ev \in BOOLEAN,
        ntt \in 1..MaxTrainTimesteps, nis \in InferenceChoices(MaxTrainTimesteps) }

Configs == { c \in AllConfigs : c.num_inference_steps \in InferenceChoices(c.num_train_timesteps) }

\* Configuration validation: n_action_steps <= horizon - n_obs_steps + 1.
ConfigValidation(c) == c.n_action_steps + c.n_obs_steps - 1 <= c.horizon

(***************************************************************************)
(* Queues: collections.deque(maxlen=...)                                   *)
(***************************************************************************)
OBS_ROBOT == "observation.state"
OBS_IMAGES == "observation.images"
OBS_CAMERA == "observation.image"
OBS_ENV == "observation.environment_state"
ACTION_KEY == "action"

\* keys of self._queues created by reset()
QueueKeys(c) ==
    {OBS_ROBOT, ACTION_KEY}
      \cup (IF c.image_features THEN {OBS_IMAGES} ELSE {})
      \cup (IF c.env_state_feature THEN {OBS_ENV} ELSE {})

\* the observation keys among them
ObsKeysOf(c) == QueueKeys(c) \ {ACTION_KEY}

\* mutant: the two capacities swapped
maxlen_swapped(c, k) == IF k = ACTION_KEY THEN c.n_obs_steps ELSE c.n_action_steps

\* maxlen of the deque reset() creates for key k
maxlen(c, k) == IF k = ACTION_KEY THEN c.n_action_steps ELSE c.n_obs_steps

\* mutant: the deque grows without bound
deque_append_unbounded(q, x, m) == Append(q, x)

\* deque.append on a bounded deque: a full deque drops its leftmost entry
deque_append(q, x, m) ==
    IF Len(q) >= m THEN SubSeq(q, Len(q) - m + 2, Len(q)) \o <<x>> ELSE Append(q, x)

\* mutant: only the first item is appended
deque_extend_first(q, xs, m) ==
    IF xs = <<>> THEN q ELSE deque_append(q, Head(xs), m)

\* deque.extend: append the items left to right
RECURSIVE deque_extend(_, _, _)
deque_extend(q, xs, m) ==
    IF xs = <<>> THEN q ELSE deque_extend(deque_append(q, Head(xs), m), Tail(xs), m)

Copies(x, n) == [i \in 1..n |-> x]

\* mutant: pop() takes the newest entry
pop_right(q) == [item |-> q[Len(q)], rest |-> SubSeq(q, 1, Len(q) - 1)]

\* deque.popleft on a non-empty deque: the item returned and the deque left
popleft(q) == [item |-> Head(q), rest |-> Tail(q)]

(***************************************************************************)
(* Observations.  The caller supplies one observation per control step;    *)
(* its entry under key k is the token below (ep is the number of resets    *)
(* that had happened when it was supplied).                                *)
(***************************************************************************)
RawKeys(c) ==
    {OBS_ROBOT}
      \cup (IF c.image_features THEN {OBS_CAMERA} ELSE {})
      \cup (IF c.env_state_feature THEN {OBS_ENV} ELSE {})

Entry(k, o, e, n) == [key |-> k, obs |-> o, ep |-> e, normalized |-> n]

RawBatch(c, o, e) == [k \in RawKeys(c) |-> Entry(k, o, e, FALSE)]

\* Normalize: applied per key
normalize_inputs(batch) ==
    [k \in DOMAIN batch |-> [batch[k] EXCEPT !.normalized = TRUE]]

\* torch.stack of the camera entries into the single key "observation.images"
stack_images(c, batch) ==
    IF c.image_features
    THEN [k \in (DOMAIN batch) \cup {OBS_IMAGES} |->
            IF k = OBS_IMAGES THEN [batch[OBS_CAMERA] EXCEPT !.key = OBS_IMAGES] ELSE batch[k]]
    ELSE batch

\* populate_queues: keys that have no queue are ignored; an empty queue is
\* back-filled with copies of the new entry up to its capacity; otherwise
\* the entry is appended.
populate_queues(c, qs, batch) ==
    [k \in DOMAIN qs |->
        IF k \notin DOMAIN batch THEN qs[k]
        ELSE IF qs[k] = <<>> THEN Copies(batch[k], maxlen(c, k))
        ELSE deque_append(qs[k], batch[k], maxlen(c, k))]

\* mutant: the window stacked newest first
stack_window_reversed(qs, batch) ==
    [k \in (DOMAIN batch) \cap (DOMAIN qs) |->
        [i \in 1..Len(qs[k]) |-> qs[k][Len(qs[k]) + 1 - i]]]

\* {k: torch.stack(list(self._queues[k]), dim=1) for k in batch if k in self._queues}
stack_window(qs, batch) ==
    [k \in (DOMAIN batch) \cap (DOMAIN qs) |-> qs[k]]

(***************************************************************************)
(* DiT: the sampling path.                                                 *)
(***************************************************************************)
\* mutant: the configured num_inference_steps is ignored
num_inference_steps_train(c) == c.num_train_timesteps

\* DiT.__init__: self.num_inference_steps
num_inference_steps(c) ==
    IF c.num_inference_steps = <<>> THEN c.num_train_timesteps
    ELSE c.num_inference_steps[1]

\* noise_scheduler.set_timesteps(n); noise_scheduler.timesteps: the n
\* inference timesteps of the num_train_timesteps grid, descending.
set_timesteps(c, n) ==
    [i \in 1..n |-> (n - i) * (c.num_train_timesteps \div n)]

\* torch.randn prior of the g-th sampling call: (B, horizon, action_dim)
Prior(c, g) == [i \in 1..c.horizon |-> [gen |-> g, idx |-> i - 1, denoised |-> 0, unnormalized |-> FALSE]]

\* _prepare_global_conditioning: torch.cat of the encoded features along the
\* token axis, in the order images, robot state, environment state.
prepare_global_conditioning(c, batch) ==
    (IF c.image_features THEN batch[OBS_IMAGES] ELSE <<>>)
      \o batch[OBS_ROBOT]
      \o (IF c.env_state_feature THEN batch[OBS_ENV] ELSE <<>>)

\* DiTNoiseNet.forward_enc: the conditioning cache.  written counts the
\* in-place writes made to the cache tensor since it was produced.
forward_enc(global_cond) == [cond |-> global_cond, written |-> 0]

\* mutant: the conditioning is updated in place (cond += t)
forward_dec_inplace(sample, t, B, enc_cache) ==
    [output |-> [t |-> t, batch |-> B],
     cache |-> [enc_cache EXCEPT !.written = @ + 1]]

\* DiTNoiseNet.forward_dec: decoder layers and output head read the cache
\* (torch.mean(cond, axis=0), cond + t, enc_cache[-1] allocate new tensors);
\* the result pairs the model output with the cache as the call leaves it.
forward_dec(sample, t, B, enc_cache) ==
    [output |-> [t |-> t, batch |-> B], cache |-> enc_cache]

\* noise_scheduler.step(model_output, t, sample).prev_sample
scheduler_step(model_output, t, sample) ==
    [i \in 1..Len(sample) |-> [sample[i] EXCEPT !.denoised = @ + 1]]

EncEvent(cache) == [op |-> "forward_enc", t |-> -1, batch |-> 0, cache |-> cache]
DecEvent(t, B, cache) == [op |-> "forward_dec", t |-> t, batch |-> B, cache |-> cache]

\* for t in self.noise_scheduler.timesteps: ...
RECURSIVE denoise_loop(_, _, _, _, _)
denoise_loop(ts, B, sample, enc_cache, trace) ==
    IF ts = <<>> THEN [sample |-> sample, cache |-> enc_cache, trace |-> trace]
    ELSE LET t == Head(ts)
             dec == forward_dec(sample, t, B, enc_cache)
         IN denoise_loop(Tail(ts), B, scheduler_step(dec.output, t, sample), dec.cache,
                         Append(trace, DecEvent(t, B, enc_cache)))

\* DiT.conditional_sample; g identifies the random prior drawn by the call.
\* trace lists the network invocations of the call in program order.
conditional_sample(c, B, global_cond, g) ==
    LET ts == set_timesteps(c, num_inference_steps(c))
        enc_cache == forward_enc(global_cond)
    IN denoise_loop(ts, B, Prior(c, g), enc_cache, <<EncEvent(enc_cache)>>)

\* mutant: the slice keeps its end index
PySlice_inclusive(xs, start, end) == SubSeq(xs, start + 1, Min(end + 1, Len(xs)))

\* actions[:, start:end] (Python slicing clips at the end of the tensor)
PySlice(xs, start, end) == SubSeq(xs, start + 1, Min(end, Len(xs)))

NoSample == [sample |-> <<>>, cache |-> forward_enc(<<>>), trace |-> <<>>]

\* DiT.generate_actions
generate_actions(c, batch, B, g) ==
    LET n_obs_steps == Len(batch[OBS_ROBOT])
    IN IF n_obs_steps # c.n_obs_steps
       THEN [raised |-> TRUE, actions |-> <<>>, run |-> NoSample]
       ELSE LET global_cond == prepare_global_conditioning(c, batch)
                run == conditional_sample(c, B, global_cond, g)
                start == n_obs_steps - 1
                end == start + c.n_action_steps
            IN [raised |-> FALSE, actions |-> PySlice(run.sample, start, end), run |-> run]

\* Unnormalize: applied to every action
unnormalize_outputs(actions) ==
    [i \in 1..Len(actions) |-> [actions[i] EXCEPT !.unnormalized = TRUE]]

(***************************************************************************)
(* DiTPolicy                                                               *)
(***************************************************************************)
\* DiTPolicy.reset: fresh, empty deques for every key
reset(c) == [k \in QueueKeys(c) |-> <<>>]

\* DiTPolicy.select_action on queues qs with the observation o supplied in
\* epoch e, batch size B; g identifies the prior a sampling call would draw.
\* raised: the call ended in an exception (the assertion of generate_actions
\* or popleft on an empty deque) and returned nothing.
select_action(c, qs, o, e, B, g) ==
    LET batch == stack_images(c, normalize_inputs(RawBatch(c, o, e)))
        qs1 == populate_queues(c, qs, batch)
        empty == Len(qs1[ACTION_KEY]) = 0
        window == stack_window(qs1, batch)
        gen == generate_actions(c, window, B, g)
        actions == unnormalize_outputs(gen.actions)
        qs2 == IF empty /\ ~gen.raised
               THEN [qs1 EXCEPT ![ACTION_KEY] = deque_extend(@, actions, maxlen(c, ACTION_KEY))]
               ELSE qs1
        raised == (empty /\ gen.raised) \/ qs2[ACTION_KEY] = <<>>
    IN [queues   |-> IF raised THEN qs2 ELSE [qs2 EXCEPT ![ACTION_KEY] = popleft(@).rest],
        raised   |-> raised,
        result   |-> IF raised THEN <<>> ELSE <<popleft(qs2[ACTION_KEY]).item>>,
        sampled  |-> empty,
        qlen     |-> Len(qs1[ACTION_KEY]),
        window   |-> IF empty THEN window ELSE <<>>,
        enqueued |-> Len(qs2[ACTION_KEY]) - Len(qs1[ACTION_KEY]),
        actions  |-> IF empty THEN gen.actions ELSE <<>>,
        run      |-> IF empty THEN gen.run ELSE NoSample]

\* mutant: a failed call restores the queues it found
select_action_faulty_atomic(c, qs, o, e, B, g) ==
    LET batch == stack_images(c, normalize_inputs(RawBatch(c, o, e)))
        qs1 == populate_queues(c, qs, batch)
    IN [queues |-> qs, raised |-> TRUE, result |-> <<>>, sampled |-> TRUE,
        qlen |-> Len(qs1[ACTION_KEY]), window |-> stack_window(qs1, batch),
        enqueued |-> 0, actions |-> <<>>, run |-> NoSample]

\* DiTPolicy.select_action when the generate_actions call it makes raises:
\* the exception leaves select_action after populate_queues has run and
\* before anything is enqueued or popped.
select_action_faulty(c, qs, o, e, B, g) ==
    LET batch == stack_images(c, normalize_inputs(RawBatch(c, o, e)))
        qs1 == populate_queues(c, qs, batch)
    IN [queues |-> qs1, raised |-> TRUE, result |-> <<>>, sampled |-> TRUE,
        qlen |-> Len(qs1[ACTION_KEY]), window |-> stack_window(qs1, batch),
        enqueued |-> 0, actions |-> <<>>, run |-> NoSample]

NoLast ==
    [op |-> "none", index |-> 0, raised |-> FALSE, result |-> <<>>, sampled |-> FALSE,
     qlen |-> 0, window |-> <<>>, enqueued |-> 0, actions |-> <<>>, run |-> NoSample]

(***************************************************************************)
(* Configuration selectors                                                 *)
(***************************************************************************)
SchedulerTypes == {"DDPM", "DDIM", "DPM"}
PredictionTypes == {"epsilon", "sample", "v_prediction"}
Activations == {"relu", "gelu", "glu", "silu"}
BackboneSizes == {18, 34, 50, 101}
NormNames == {"batch_norm", "group_norm", "diffusion_policy", "layer_norm"}

Errors == {"ValueError", "NotImplementedError", "RuntimeError"}

\* mutant: an unknown scheduler name falls back to DDPM
make_noise_scheduler_default(name) ==
    IF name = "DDIM" THEN "DDIMScheduler" ELSE "DDPMScheduler"

\* _make_noise_scheduler
make_noise_scheduler(name) ==
    IF name = "DDPM" THEN "DDPMScheduler"
    ELSE IF name = "DDIM" THEN "DDIMScheduler"
    ELSE "ValueError"

\* DiT.compute_loss: the regression target
loss_target(prediction_type) ==
    IF prediction_type = "epsilon" THEN "eps"
    ELSE IF prediction_type = "sample" THEN "batch[action]"
    ELSE "ValueError"

\* get_activation_fn
get_activation_fn(activation) ==
    IF activation = "relu" THEN "F.relu"
    ELSE IF activation = "gelu" THEN "nn.GELU"
    ELSE IF activation = "glu" THEN "F.glu"
    ELSE "RuntimeError"

\* _make_norm
make_norm(norm_name) ==
    IF norm_name = "batch_norm" THEN "nn.BatchNorm2d"
    ELSE IF norm_name = "group_norm" THEN "GroupNorm(norm_num_groups)"
    ELSE IF norm_name = "diffusion_policy" THEN "GroupNorm(num_channels/16)"
    ELSE "NotImplementedError"

\* _construct_resnet
construct_resnet(size) ==
    IF size = 18 THEN "resnet18"
    ELSE IF size = 34 THEN "resnet34"
    ELSE IF size = 50 THEN "resnet50"
    ELSE "NotImplementedError"

\* DiT.__init__: the first selector that raises ends the construction.
\* Order: DiTRgbEncoder (_make_norm, _construct_resnet) when image features
\* are configured, DiTNoiseNet (get_activation_fn in the encoder and decoder
\* layers), then the noise scheduler.
DiT_init(s) ==
    IF s.image_features /\ make_norm(s.vision_backbone_norm_name) \in Errors
      THEN make_norm(s.vision_backbone_norm_name)
    ELSE IF s.image_features /\ construct_resnet(s.vision_backbone_size) \in Errors
      THEN construct_resnet(s.vision_backbone_size)
    ELSE IF get_activation_fn(s.feedforward_activation) \in Errors
      THEN get_activation_fn(s.feedforward_activation)
    ELSE IF make_noise_scheduler(s.noise_scheduler_type) \in Errors
      THEN make_noise_scheduler(s.noise_scheduler_type)
    ELSE "constructed"

Selectors ==
    { [noise_scheduler_type |-> ns, prediction_type |-> pt, feedforward_activation |-> fa,
       vision_backbone_size |-> bs, vision_backbone_norm_name |-> nn, image_features |-> im,
       kind |-> "none", outcome |-> "none"] :
        ns \in SchedulerTypes, pt \in PredictionTypes, fa \in Activations,
        bs \in BackboneSizes, nn \in NormNames, im \in BOOLEAN }

NoSel ==
    [noise_scheduler_type |-> "DDPM", prediction_type |-> "epsilon",
     feedforward_activation |-> "gelu", vision_backbone_size |-> 18,
     vision_backbone_norm_name |-> "group_norm", image_features |-> FALSE,
     kind |-> "none", outcome |-> "none"]

(***************************************************************************)
(* DiT.compute_loss.  A training batch is described by the keys it holds,  *)
(* the length of its action tensor and the length of its state tensor.     *)
(***************************************************************************)
ACTION_IS_PAD == "action_is_pad"

LossBatches ==
    { [keys |-> ks, horizon |-> h, n_obs_steps |-> o] :
        ks \in SUBSET {OBS_ROBOT, OBS_IMAGES, OBS_ENV, ACTION_KEY, ACTION_IS_PAD},
        h \in 1..MaxHorizon, o \in 1..MaxObsSteps }

\* the asserts under "# Input validation."
input_validation(c, batch) ==
    /\ {OBS_ROBOT, ACTION_KEY, ACTION_IS_PAD} \subseteq batch.keys
    /\ (OBS_IMAGES \in batch.keys \/ OBS_ENV \in batch.keys)
    /\ batch.horizon = c.horizon
    /\ batch.n_obs_steps = c.n_obs_steps

\* _prepare_global_conditioning on a batch holding the given keys: the
\* encoders run, in order, until a configured modality is missing from the
\* batch (KeyError).  The robot state is always configured.
prepare_conditioning_run(c, keys) ==
    LET img == IF ~c.image_features THEN [raised |-> FALSE, trace |-> <<>>]
               ELSE IF OBS_IMAGES \notin keys THEN [raised |-> TRUE, trace |-> <<>>]
               ELSE [raised |-> FALSE, trace |-> <<"rgb_encoder">>]
        rob == IF img.raised THEN img
               ELSE IF OBS_ROBOT \notin keys THEN [raised |-> TRUE, trace |-> img.trace]
               ELSE [raised |-> FALSE, trace |-> Append(img.trace, "robot_state_encoder")]
    IN IF rob.raised \/ ~c.env_state_feature THEN rob
       ELSE IF OBS_ENV \notin keys THEN [raised |-> TRUE, trace |-> rob.trace]
       ELSE [raised |-> FALSE, trace |-> Append(rob.trace, "env_state_encoder")]

\* DiT.compute_loss: the error raised ("none" when the loss is returned) and
\* the computations run before the call ended, in program order
compute_loss(c, prediction_type, batch) ==
    IF ~input_validation(c, batch)
    THEN [raised |-> TRUE, error |-> "AssertionError", trace |-> <<>>]
    ELSE LET cond == prepare_conditioning_run(c, batch.keys)
             fwd == cond.trace \o <<"randn", "randint", "add_noise", "forward_enc", "forward_dec">>
         IN IF cond.raised
            THEN [raised |-> TRUE, error |-> "KeyError", trace |-> cond.trace]
            ELSE IF loss_target(prediction_type) \in Errors
            THEN [raised |-> TRUE, error |-> loss_target(prediction_type), trace |-> fwd]
            ELSE [raised |-> FALSE, error |-> "none", trace |-> Append(fwd, "mse_loss")]

NoLoss ==
    [op |-> "none", batch |-> [keys |-> {}, horizon |-> 1, n_obs_steps |-> 1],
     raised |-> FALSE, error |-> "none", trace |-> <<>>]

(***************************************************************************)
(* DiTNoiseNet: parameter initialisation.  A parameter is described by the *)
(* initialiser that last wrote it: "default" (the constructor of nn.Linear,*)
(* nn.MultiheadAttention or nn.LayerNorm), "xavier" or "zeros".            *)
(***************************************************************************)
MaxLayers == 2
MaxCondTokens == 2
MaxCondVal == 1

ShiftScaleMods == {"attn_mod1", "mlp_mod1"}
ZeroScaleMods == {"attn_mod2", "mlp_mod2"}

\* parameters with p.dim() > 1 of a DiTDecoderLayer
LayerMatrices ==
    {"self_attn.in_proj_weight", "self_attn.out_proj.weight", "linear1.weight", "linear2.weight",
     "attn_mod1.scale.weight", "attn_mod1.shift.weight", "attn_mod2.scale.weight",
     "mlp_mod1.scale.weight", "mlp_mod1.shift.weight", "mlp_mod2.scale.weight"}

\* parameters with p.dim() = 1 of a DiTDecoderLayer
LayerVectors ==
    {"self_attn.in_proj_bias", "self_attn.out_proj.bias", "linear1.bias", "linear2.bias",
     "norm1.weight", "norm1.bias", "norm2.weight", "norm2.bias",
     "attn_mod1.scale.bias", "attn_mod1.shift.bias", "attn_mod2.scale.bias",
     "mlp_mod1.scale.bias", "mlp_mod1.shift.bias", "mlp_mod2.scale.bias"}

\* DiTDecoderLayer.__init__: every parameter as its module's constructor left it
DiTDecoderLayer_init == [p \in LayerMatrices \cup LayerVectors |-> "default"]

\* for p in self.parameters(): if p.dim() > 1: nn.init.xavier_uniform_(p)
xavier_matrices(params) ==
    [p \in DOMAIN params |-> IF p \in LayerMatrices THEN "xavier" ELSE params[p]]

\* ShiftScaleMod.reset_parameters of the modulation named mod
ShiftScaleMod_reset_parameters(params, mod) ==
    [p \in DOMAIN params |->
        IF p \in {mod \o ".scale.weight", mod \o ".shift.weight"} THEN "xavier"
        ELSE IF p \in {mod \o ".scale.bias", mod \o ".shift.bias"} THEN "zeros"
        ELSE params[p]]

\* ZeroScaleMod.reset_parameters of the modulation named mod
ZeroScaleMod_reset_parameters(params, mod) ==
    [p \in DOMAIN params |->
        IF p \in {mod \o ".scale.weight", mod \o ".scale.bias"} THEN "zeros" ELSE params[p]]

\* for s in (attn_mod1, attn_mod2, mlp_mod1, mlp_mod2): s.reset_parameters()
reset_modulations(params) ==
    ZeroScaleMod_reset_parameters(
        ShiftScaleMod_reset_parameters(
            ZeroScaleMod_reset_parameters(
                ShiftScaleMod_reset_parameters(params, "attn_mod1"),
                "attn_mod2"),
            "mlp_mod1"),
        "mlp_mod2")

\* mutant: the modulations are reset before the generic Xavier pass
DiTDecoderLayer_reset_parameters_xavier_last(params) ==
    xavier_matrices(reset_modulations(params))

\* DiTDecoderLayer.reset_parameters
DiTDecoderLayer_reset_parameters(params) ==
    reset_modulations(xavier_matrices(params))

\* DiTDecoder.__init__: n layers constructed, then reset_parameters on each
DiTDecoder_init(n) ==
    [i \in 1..n |-> DiTDecoderLayer_reset_parameters(DiTDecoderLayer_init)]

FinalLayerParams ==
    {"linear.weight", "linear.bias", "adaLN_modulation.1.weight", "adaLN_modulation.1.bias"}

\* FinalLayer.__init__: two nn.Linear, as their constructor left them
FinalLayer_init == [p \in FinalLayerParams |-> "default"]

\* FinalLayer.reset_parameters
FinalLayer_reset_parameters(params) == [p \in DOMAIN params |-> "zeros"]

\* DiTNoiseNet.__init__: self.decoder = DiTDecoder(config);
\* self.eps_out = FinalLayer(...)  (no reset_parameters call on eps_out)
DiTNoiseNet_init(n) ==
    [decoder |-> DiTDecoder_init(n), eps_out |-> FinalLayer_init]

(***************************************************************************)
(* DiTNoiseNet: the modulation path of forward_dec.  The feature axis is   *)
(* abstracted to one number: the conditioning cache (T_cond, B, D) is a    *)
(* sequence of T_cond rows of B numbers, the time embedding (B, D) a       *)
(* sequence of B numbers.  A mean is kept exact as <<numerator, divisor>>. *)
(***************************************************************************)
RECURSIVE SumSeq(_)
SumSeq(xs) == IF xs = <<>> THEN 0 ELSE Head(xs) + SumSeq(Tail(xs))

CondValues == 0..MaxCondVal

Vectors(n) == [1..n -> CondValues]

Caches(B) == UNION { [1..T -> Vectors(B)] : T \in 1..MaxCondTokens }

\* DiTDecoderLayer.forward: cond = torch.mean(cond, axis=0); cond = cond + t
\* with cond of shape (T_cond, B, D): the mean runs over the token axis
DiTDecoderLayer_cond_sig(cond, t) ==
    [b \in 1..Len(t) |->
        <<SumSeq([i \in 1..Len(cond) |-> cond[i][b]]) + Len(cond) * t[b], Len(cond)>>]

\* FinalLayer.forward: cond = torch.mean(cond, axis=0); cond = cond + t
\* with cond of shape (B, D): the mean runs over the batch axis and is
\* broadcast over t
FinalLayer_cond_sig(cond, t) ==
    [b \in 1..Len(t) |-> <<SumSeq(cond) + Len(cond) * t[b], Len(cond)>>]

\* forward_dec: self.eps_out(dec_out, time_enc, enc_cache[-1])
eps_out_cond(enc_cache) == enc_cache[Len(enc_cache)]

\* ZeroScaleMod.forward: x * self.scale(c)[None] is zero when weight and
\* bias of scale are zero
ZeroScaleMod_is_zero(params, mod) ==
    /\ params[mod \o ".scale.weight"] = "zeros"
    /\ params[mod \o ".scale.bias"] = "zeros"

\* DiTDecoderLayer.forward on token x: x plus the two modulated residual
\* branches; changed counts the branches that added a non-zero term
DiTDecoderLayer_forward(params, x) ==
    [x EXCEPT !.changed = @ + (IF ZeroScaleMod_is_zero(params, "attn_mod2") THEN 0 ELSE 1)
                            + (IF ZeroScaleMod_is_zero(params, "mlp_mod2") THEN 0 ELSE 1)]

\* DiTDecoder.forward: the layers in order
RECURSIVE DiTDecoder_forward(_, _)
DiTDecoder_forward(layers, x) ==
    IF layers = <<>> THEN x
    ELSE DiTDecoder_forward(Tail(layers), DiTDecoderLayer_forward(Head(layers), x))

Token(v) == [val |-> v, changed |-> 0]

NoNet ==
    [op |-> "none", n_layers |-> 1, decoder |-> <<>>, eps_out |-> FinalLayer_init,
     x |-> Token(0), t |-> <<>>, cache |-> <<>>, dec_out |-> Token(0),
     layer_sig |-> <<>>, head_sig |-> <<>>]

(***************************************************************************)
(* The policy as a state machine.                                          *)
(* genAtReset: the value of genCount at the last reset.                     *)
(* calls, history, refills: select_action calls since the last reset, the  *)
(* observations they supplied and the call numbers that sampled.           *)
(* genCount: sampling calls made so far; traj, refillAt: the trajectory    *)
(* drawn by the last sampling call and the number of the call that drew it.*)
(***************************************************************************)
InitPolicy(configs) ==
    /\ cfg \in configs
    /\ batch_size \in 1..MaxBatch
    /\ pc = "new"
    /\ queues = [k \in {} |-> <<>>]
    /\ resets = 0
    /\ calls = 0
    /\ total = 0
    /\ history = <<>>
    /\ refills = {}
    /\ genCount = 0
    /\ genAtReset = 0
    /\ traj = <<>>
    /\ refillAt = 0
    /\ last = NoLast
    /\ sel = NoSel
    /\ loss = NoLoss
    /\ net = NoNet

\* the policy protocol does not read the sampler settings: one schedule
\* length per num_inference_steps choice
PolicyConfigs == { c \in Configs : c.num_train_timesteps = MaxTrainTimesteps }

Init == InitPolicy(PolicyConfigs)

\* mutant: construction without configuration validation
DiTPolicy_init_unvalidated ==
    /\ pc = "new"
    /\ pc' = "ready"
    /\ queues' = reset(cfg)
    /\ UNCHANGED <<cfg, batch_size, resets, calls, total, history, refills,
                   genCount, genAtReset, traj, refillAt, last, sel, loss, net>>

\* DiTPolicy.__init__: validate the configuration, then reset()
DiTPolicy_init ==
    /\ pc = "new"
    /\ pc' = IF ConfigValidation(cfg) THEN "ready" ELSE "invalid"
    /\ queues' = IF ConfigValidation(cfg) THEN reset(cfg) ELSE queues
    /\ UNCHANGED <<cfg, batch_size, resets, calls, total, history, refills,
                   genCount, genAtReset, traj, refillAt, last, sel, loss, net>>

\* mutant: reset() that forgets the action queue
Reset_keeps_actions ==
    /\ pc = "ready"
    /\ resets < MaxResets
    /\ queues' = [k \in QueueKeys(cfg) |-> IF k = ACTION_KEY THEN queues[k] ELSE <<>>]
    /\ resets' = resets + 1
    /\ calls' = 0
    /\ history' = <<>>
    /\ refills' = {}
    /\ traj' = <<>>
    /\ refillAt' = 0
    /\ genAtReset' = genCount
    /\ last' = [NoLast EXCEPT !.op = "reset", !.qlen = Len(queues[ACTION_KEY])]
    /\ UNCHANGED <<cfg, batch_size, pc, total, genCount, sel, loss, net>>

Reset ==
    /\ pc = "ready"
    /\ resets < MaxResets
    /\ queues' = reset(cfg)
    /\ resets' = resets + 1
    /\ calls' = 0
    /\ history' = <<>>
    /\ refills' = {}
    /\ traj' = <<>>
    /\ refillAt' = 0
    /\ genAtReset' = genCount
    /\ last' = [NoLast EXCEPT !.op = "reset", !.qlen = Len(queues[ACTION_KEY])]
    /\ UNCHANGED <<cfg, batch_size, pc, total, genCount, sel, loss, net>>

SelectAction ==
    /\ pc = "ready"
    /\ total < MaxCalls
    /\ \E o \in ObsValues :
         LET r == select_action(cfg, queues, o, resets, batch_size, genCount + 1)
         IN /\ queues' = r.queues
            /\ history' = Append(history, o)
            /\ refills' = IF r.sampled THEN refills \cup {calls} ELSE refills
            /\ genCount' = IF r.sampled THEN genCount + 1 ELSE genCount
            /\ traj' = IF r.sampled THEN r.run.sample ELSE traj
            /\ refillAt' = IF r.sampled THEN calls ELSE refillAt
            /\ last' = [op |-> "select_action", index |-> calls, raised |-> r.raised,
                        result |-> r.result, sampled |-> r.sampled, qlen |-> r.qlen,
                        window |-> r.window, enqueued |-> r.enqueued,
                        actions |-> r.actions, run |-> r.run]
    /\ calls' = calls + 1
    /\ total' = total + 1
    /\ UNCHANGED <<cfg, batch_size, pc, resets, genAtReset, sel, loss, net>>

Next == DiTPolicy_init \/ Reset \/ SelectAction

Spec == Init /\ [][Next]_vars

(***************************************************************************)
(* The policy when a sampling call may fail.                               *)
(***************************************************************************)
FailConfigs ==
    { c \in PolicyConfigs : c.num_inference_steps = <<>> /\ ~c.env_state_feature }

InitFail == InitPolicy(FailConfigs) /\ batch_size = 1

\* a select_action call whose generate_actions call raises; the call is
\* made only when the action queue is empty
SelectActionFaulty ==
    /\ pc = "ready"
    /\ total < MaxCalls
    /\ queues[ACTION_KEY] = <<>>
    /\ \E o \in ObsValues :
         LET r == select_action_faulty(cfg, queues, o, resets, batch_size, genCount + 1)
         IN /\ queues' = r.queues
            /\ history' = Append(history, o)
            /\ last' = [op |-> "select_action", index |-> calls, raised |-> r.raised,
                        result |-> r.result, sampled |-> r.sampled, qlen |-> r.qlen,
                        window |-> r.window, enqueued |-> r.enqueued,
                        actions |-> r.actions, run |-> r.run]
    /\ genCount' = genCount + 1
    /\ calls' = calls + 1
    /\ total' = total + 1
    /\ UNCHANGED <<cfg, batch_size, pc, resets, refills, genAtReset, traj, refillAt,
                   sel, loss, net>>

NextFail == DiTPolicy_init \/ Reset \/ SelectAction \/ SelectActionFaulty

SpecFail == InitFail /\ [][NextFail]_vars

(***************************************************************************)
(* The end-to-end scenario: n_obs_steps=2, horizon=8, n_action_steps=4.    *)
(***************************************************************************)
ScenarioConfigs ==
    { [c EXCEPT !.n_obs_steps = 2, !.horizon = 8, !.n_action_steps = 4] : c \in PolicyConfigs }

InitScenario == InitPolicy(ScenarioConfigs)

SpecScenario == InitScenario /\ [][Next]_vars

(***************************************************************************)
(* DiT used directly: generate_actions and conditional_sample.             *)
(***************************************************************************)
InitDiT ==
    /\ cfg \in Configs
    /\ batch_size \in 1..MaxBatch
    /\ pc = "dit"
    /\ queues = [k \in {} |-> <<>>]
    /\ resets = 0
    /\ calls = 0
    /\ total = 0
    /\ history = <<>>
    /\ refills = {}
    /\ genCount = 0
    /\ genAtReset = 0
    /\ traj = <<>>
    /\ refillAt = 0
    /\ last = NoLast
    /\ sel = NoSel
    /\ loss = NoLoss
    /\ net = NoNet

\* a batch of n stacked observations, all drawn from observation o
Window(c, o, n) ==
    [k \in ObsKeysOf(c) |-> Copies(Entry(k, o, 0, TRUE), n)]

GenerateActions ==
    /\ pc = "dit"
    /\ total < MaxCalls
    /\ \E o \in ObsValues, n \in 1..MaxObsSteps :
         LET gen == generate_actions(cfg, Window(cfg, o, n), batch_size, genCount + 1)
         IN last' = [NoLast EXCEPT !.op = "generate_actions", !.raised = gen.raised,
                                   !.window = Window(cfg, o, n),
                                   !.actions = gen.actions, !.run = gen.run]
    /\ genCount' = genCount + 1
    /\ total' = total + 1
    /\ UNCHANGED <<cfg, batch_size, pc, queues, resets, calls, history, refills,
                   genAtReset, traj, refillAt, sel, loss, net>>

ConditionalSample ==
    /\ pc = "dit"
    /\ total < MaxCalls
    /\ \E o \in ObsValues :
         LET global_cond == prepare_global_conditioning(cfg, Window(cfg, o, cfg.n_obs_steps))
             run == conditional_sample(cfg, batch_size, global_cond, genCount + 1)
         IN last' = [NoLast EXCEPT !.op = "conditional_sample", !.run = run]
    /\ genCount' = genCount + 1
    /\ total' = total + 1
    /\ UNCHANGED <<cfg, batch_size, pc, queues, resets, calls, history, refills,
                   genAtReset, traj, refillAt, sel, loss, net>>

NextDiT == GenerateActions \/ ConditionalSample

SpecDiT == InitDiT /\ [][NextDiT]_vars

(***************************************************************************)
(* DiT.compute_loss applied to a training batch.  compute_loss reads      *)
(* neither n_action_steps nor the sampler settings.                        *)
(***************************************************************************)
InitLoss ==
    /\ cfg \in { c \in PolicyConfigs : c.num_inference_steps = <<>> /\ c.n_action_steps = 1 }
    /\ batch_size = 1
    /\ pc = "dit"
    /\ queues = [k \in {} |-> <<>>]
    /\ resets = 0
    /\ calls = 0
    /\ total = 0
    /\ history = <<>>
    /\ refills = {}
    /\ genCount = 0
    /\ genAtReset = 0
    /\ traj = <<>>
    /\ refillAt = 0
    /\ last = NoLast
    /\ sel \in { [NoSel EXCEPT !.prediction_type = p] : p \in PredictionTypes }
    /\ loss \in { [NoLoss EXCEPT !.batch = b] : b \in LossBatches }
    /\ net = NoNet

ComputeLoss ==
    /\ pc = "dit"
    /\ loss.op = "none"
    /\ LET r == compute_loss(cfg, sel.prediction_type, loss.batch)
       IN loss' = [op |-> "compute_loss", batch |-> loss.batch, raised |-> r.raised,
                   error |-> r.error, trace |-> r.trace]
    /\ UNCHANGED <<cfg, batch_size, pc, queues, resets, calls, total, history, refills,
                   genCount, genAtReset, traj, refillAt, last, sel, net>>

NextLoss == ComputeLoss

SpecLoss == InitLoss /\ [][NextLoss]_vars

(***************************************************************************)
(* DiTNoiseNet: construction, then one forward_dec on the fresh network.   *)
(***************************************************************************)
InitNet ==
    /\ cfg \in { c \in PolicyConfigs : c.n_obs_steps = 1 /\ c.n_action_steps = 1 /\ c.horizon = 1
                                        /\ ~c.image_features /\ ~c.env_state_feature
                                        /\ c.num_inference_steps = <<>> }
    /\ batch_size \in 1..MaxBatch
    /\ pc = "net"
    /\ queues = [k \in {} |-> <<>>]
    /\ resets = 0
    /\ calls = 0
    /\ total = 0
    /\ history = <<>>
    /\ refills = {}
    /\ genCount = 0
    /\ genAtReset = 0
    /\ traj = <<>>
    /\ refillAt = 0
    /\ last = NoLast
    /\ sel = NoSel
    /\ loss = NoLoss
    /\ net \in { [NoNet EXCEPT !.n_layers = n] : n \in 1..MaxLayers }

ConstructNoiseNet ==
    /\ pc = "net"
    /\ net.op = "none"
    /\ LET m == DiTNoiseNet_init(net.n_layers)
       IN net' = [net EXCEPT !.op = "constructed", !.decoder = m.decoder, !.eps_out = m.eps_out]
    /\ UNCHANGED <<cfg, batch_size, pc, queues, resets, calls, total, history, refills,
                   genCount, genAtReset, traj, refillAt, last, sel, loss>>

ForwardDec ==
    /\ pc = "net"
    /\ net.op = "constructed"
    /\ \E x \in CondValues, t \in Vectors(batch_size), cache \in Caches(batch_size) :
         net' = [net EXCEPT !.op = "forward_dec", !.x = Token(x), !.t = t, !.cache = cache,
                            !.dec_out = DiTDecoder_forward(net.decoder, Token(x)),
                            !.layer_sig = DiTDecoderLayer_cond_sig(cache, t),
                            !.head_sig = FinalLayer_cond_sig(eps_out_cond(cache), t)]
    /\ UNCHANGED <<cfg, batch_size, pc, queues, resets, calls, total, history, refills,
                   genCount, genAtReset, traj, refillAt, last, sel, loss>>

NextNet == ConstructNoiseNet \/ ForwardDec

SpecNet == InitNet /\ [][NextNet]_vars

(***************************************************************************)
(* The selectors: each action applies one selector of the configuration.   *)
(***************************************************************************)
InitSelectors ==
    /\ cfg \in { c \in PolicyConfigs : c.n_obs_steps = 1 /\ c.n_action_steps = 1 /\ c.horizon = 1
                                        /\ ~c.image_features /\ ~c.env_state_feature
                                        /\ c.num_inference_steps = <<>> }
    /\ batch_size = 1
    /\ pc = "selectors"
    /\ queues = [k \in {} |-> <<>>]
    /\ resets = 0
    /\ calls = 0
    /\ total = 0
    /\ history = <<>>
    /\ refills = {}
    /\ genCount = 0
    /\ genAtReset = 0
    /\ traj = <<>>
    /\ refillAt = 0
    /\ last = NoLast
    /\ sel \in Selectors
    /\ loss = NoLoss
    /\ net = NoNet

Apply(kind, outcome) ==
    /\ pc = "selectors"
    /\ sel' = [sel EXCEPT !.kind = kind, !.outcome = outcome]
    /\ UNCHANGED <<cfg, batch_size, pc, queues, resets, calls, total, history, refills,
                   genCount, genAtReset, traj, refillAt, last, loss, net>>

MakeNoiseScheduler == Apply("noise_scheduler_type", make_noise_scheduler(sel.noise_scheduler_type))
ComputeLossTarget == Apply("prediction_type", loss_target(sel.prediction_type))
GetActivationFn == Apply("feedforward_activation", get_activation_fn(sel.feedforward_activation))
MakeNorm == Apply("vision_backbone_norm_name", make_norm(sel.vision_backbone_norm_name))
ConstructResnet == Apply("vision_backbone_size", construct_resnet(sel.vision_backbone_size))
ConstructDiT == Apply("DiT", DiT_init(sel))

NextSelectors ==
    \/ MakeNoiseScheduler
    \/ ComputeLossTarget
    \/ GetActivationFn
    \/ MakeNorm
    \/ ConstructResnet
    \/ ConstructDiT

SpecSelectors == InitSelectors /\ [][NextSelectors]_vars

(***************************************************************************)
(* Properties of the queue protocol                                        *)
(***************************************************************************)
Selected == last.op = "select_action"

\* C1: since the last reset, the calls that sampled are exactly the calls
\* numbered 0, n_action_steps, 2*n_action_steps, ...; a call samples iff it
\* found the action queue empty, and a refill enqueues n_action_steps actions.
C1_RefillSchedule ==
    pc = "ready" =>
      /\ refills = { i \in 0..(calls - 1) : i % cfg.n_action_steps = 0 }
      /\ Selected =>
           /\ last.sampled <=> (last.qlen = 0)
           /\ last.sampled <=> (last.index % cfg.n_action_steps = 0)
           /\ last.sampled => last.enqueued = cfg.n_action_steps
           /\ ~last.sampled => last.enqueued = 0

C1_Witness ==
    /\ Selected
    /\ cfg.n_action_steps >= 2
    /\ last.sampled
    /\ last.index = 2 * cfg.n_action_steps
    /\ Cardinality(refills) = 3

\* the observations a window is drawn from: n_obs_steps copies of the first
\* observation since the reset, then every later observation
Backfilled == Copies(history[1], cfg.n_obs_steps) \o Tail(history)

ExpectedWindow(k) ==
    [i \in 1..cfg.n_obs_steps |->
        Entry(k, Backfilled[Len(Backfilled) - cfg.n_obs_steps + i], resets, TRUE)]

\* C2: every window handed to generate_actions by select_action has, for
\* every observation key, exactly n_obs_steps entries: the last n_obs_steps
\* of the back-filled observation sequence, oldest first.
C2_FullWindow ==
    (Selected /\ last.sampled) =>
      /\ DOMAIN last.window = ObsKeysOf(cfg)
      /\ \A k \in ObsKeysOf(cfg) :
           /\ Len(last.window[k]) = cfg.n_obs_steps
           /\ last.window[k] = ExpectedWindow(k)

C2_Witness ==
    /\ Selected
    /\ last.sampled
    /\ last.index > 0
    /\ cfg.n_obs_steps = 2
    /\ cfg.n_action_steps >= 2
    /\ last.window[OBS_ROBOT][1].obs # last.window[OBS_ROBOT][2].obs
    /\ history[1] # last.window[OBS_ROBOT][1].obs

\* C3: a call returns exactly one action; the j-th call after a refill
\* returns (unnormalized) element n_obs_steps-1+j of the trajectory sampled
\* at that refill and leaves n_action_steps-1-j actions queued.
C3_FifoReturn ==
    Selected =>
      LET j == last.index - refillAt
      IN /\ ~last.raised
         /\ Len(last.result) = 1
         /\ j \in 0..(cfg.n_action_steps - 1)
         /\ Len(traj) = cfg.horizon
         /\ last.result[1] = unnormalize_outputs(traj)[cfg.n_obs_steps + j]
         /\ Len(queues[ACTION_KEY]) = cfg.n_action_steps - 1 - j
         /\ Len(queues[ACTION_KEY]) = (IF last.sampled THEN cfg.n_action_steps ELSE last.qlen) - 1

C3_Witness ==
    /\ Selected
    /\ cfg.n_obs_steps = 2
    /\ cfg.n_action_steps = 3
    /\ last.index - refillAt = 2
    /\ queues[ACTION_KEY] = <<>>

\* what holds of the queues around a reset
C5_State ==
    /\ last.op = "reset" =>
         /\ DOMAIN queues = QueueKeys(cfg)
         /\ \A k \in QueueKeys(cfg) : queues[k] = <<>>
    /\ (Selected /\ last.index = 0) =>
         /\ last.sampled
         /\ genCount = genAtReset + 1
         /\ last.result = <<unnormalize_outputs(traj)[cfg.n_obs_steps]>>
         /\ \A k \in ObsKeysOf(cfg) :
              last.window[k] = Copies(Entry(k, history[1], resets, TRUE), cfg.n_obs_steps)
    /\ pc = "ready" =>
         /\ \A k \in ObsKeysOf(cfg) : \A i \in 1..Len(queues[k]) : queues[k][i].ep = resets
         /\ \A i \in 1..Len(queues[ACTION_KEY]) : queues[ACTION_KEY][i].gen > genAtReset
    /\ Selected =>
         /\ \A i \in 1..Len(last.result) : last.result[i].gen > genAtReset
         /\ last.sampled =>
              \A k \in ObsKeysOf(cfg) : \A i \in 1..Len(last.window[k]) : last.window[k][i].ep = resets

\* a step that leaves some non-empty queue empty is a reset
C5_OnlyResetEmpties ==
    (\E k \in DOMAIN queues : queues[k] # <<>> /\ queues'[k] = <<>>) => last'.op = "reset"

\* a step other than a reset leaves no observation queue empty and takes
\* from the action queue only the action it returns
C5_OnlyResetDiscards ==
    (pc = "ready" /\ last'.op # "reset") =>
      /\ \A k \in ObsKeysOf(cfg) : queues[k] # <<>> => queues'[k] # <<>>
      /\ queues[ACTION_KEY] # <<>> =>
           /\ queues'[ACTION_KEY] = Tail(queues[ACTION_KEY])
           /\ last'.result = <<Head(queues[ACTION_KEY])>>

\* C5 (as stated): reset() empties every queue, and no other operation
\* leaves a queue empty; the first select_action after a reset samples anew
\* from the new observation only, and nothing from before the reset is used
\* or returned after it.
C5_Original == []C5_State /\ [][C5_OnlyResetEmpties]_vars

\* C5 (amended): reset() empties every queue; no other operation empties an
\* observation queue, and the action queue otherwise loses only the action
\* each select_action returns; the first select_action after a reset samples
\* anew from the new observation only, and nothing from before the reset is
\* used or returned after it.
C5_ResetClears == []C5_State /\ [][C5_OnlyResetDiscards]_vars

C5_Witness ==
    /\ Selected
    /\ resets = 1
    /\ last.index = 0
    /\ genAtReset * cfg.n_action_steps > total - calls
    /\ cfg.n_obs_steps = 2

\* C9: a policy exists only for a configuration that passed validation
\* (n_action_steps + n_obs_steps - 1 <= horizon); construction with any other
\* configuration fails, so the slice taken by a sampling call never extends
\* past the sampled trajectory.
C9_ValidationGuard ==
    /\ pc = "ready" => ConfigValidation(cfg)
    /\ pc = "invalid" => (~ConfigValidation(cfg) /\ DOMAIN queues = {})
    /\ (Selected /\ last.sampled) =>
         cfg.n_obs_steps - 1 + cfg.n_action_steps <= Len(last.run.sample)

C9_Witness ==
    /\ pc = "invalid"
    /\ cfg.n_action_steps + cfg.n_obs_steps - 1 = cfg.horizon + 1

(***************************************************************************)
(* Properties of the sampling path                                         *)
(***************************************************************************)
\* C4: under a configuration with n_action_steps + n_obs_steps - 1 <= horizon,
\* a generate_actions call that returns gives exactly n_action_steps actions:
\* elements n_obs_steps-1 .. n_obs_steps+n_action_steps-2, in order, of the
\* horizon-length trajectory conditional_sample produced.
C4_SliceOfTrajectory ==
    (last.op = "generate_actions" /\ cfg.n_action_steps + cfg.n_obs_steps - 1 <= cfg.horizon) =>
      /\ last.raised <=> (Len(last.window[OBS_ROBOT]) # cfg.n_obs_steps)
      /\ ~last.raised =>
           /\ Len(last.run.sample) = cfg.horizon
           /\ Len(last.actions) = cfg.n_action_steps
           /\ \A i \in 1..cfg.n_action_steps :
                /\ last.actions[i] = last.run.sample[cfg.n_obs_steps - 1 + i]
                /\ last.actions[i].idx = cfg.n_obs_steps - 1 + (i - 1)
                /\ last.actions[i].gen = genCount

C4_Witness ==
    /\ last.op = "generate_actions"
    /\ ~last.raised
    /\ cfg.n_obs_steps = 2
    /\ cfg.n_action_steps = 2
    /\ cfg.horizon = 4
    /\ Len(last.actions) = 2

DecoderCalls(trace) == { i \in 1..Len(trace) : trace[i].op = "forward_dec" }
EncoderCalls(trace) == { i \in 1..Len(trace) : trace[i].op = "forward_enc" }

Sampled == last.run.trace # <<>>

\* C7: a conditional_sample call runs forward_dec exactly once per inference
\* timestep: num_inference_steps times, or num_train_timesteps times when
\* num_inference_steps is None, whatever the batch size; it then returns the
\* sample advanced by that many scheduler steps.
C7_DecoderCallCount ==
    Sampled =>
      LET n == IF cfg.num_inference_steps = <<>> THEN cfg.num_train_timesteps
               ELSE cfg.num_inference_steps[1]
          trace == last.run.trace
      IN /\ Cardinality(DecoderCalls(trace)) = n
         /\ Len(trace) = n + 1
         /\ \A i \in DecoderCalls(trace) : trace[i].batch = batch_size
         /\ \A i, j \in DecoderCalls(trace) : i < j => trace[i].t > trace[j].t
         /\ Len(last.run.sample) = cfg.horizon
         /\ \A i \in 1..cfg.horizon : last.run.sample[i].denoised = n

C7_Witness ==
    /\ last.op = "conditional_sample"
    /\ batch_size = MaxBatch
    /\ cfg.num_inference_steps = <<>>
    /\ cfg.num_train_timesteps = 2
    /\ Cardinality(DecoderCalls(last.run.trace)) = 2

\* C8: in a conditional_sample call forward_enc runs once, before every
\* forward_dec; every forward_dec receives the cache forward_enc returned, and
\* the cache is still that value when the call ends.
C8_CacheReuse ==
    Sampled =>
      LET trace == last.run.trace
      IN /\ EncoderCalls(trace) = {1}
         /\ trace[1].cache.written = 0
         /\ \A i \in DecoderCalls(trace) : trace[i].cache = trace[1].cache
         /\ last.run.cache = trace[1].cache

C8_Witness ==
    /\ last.op = "conditional_sample"
    /\ Cardinality(DecoderCalls(last.run.trace)) >= 2
    /\ cfg.env_state_feature
    /\ Len(last.run.cache.cond) >= 2

(***************************************************************************)
(* Properties of the scenario                                              *)
(***************************************************************************)
\* C6 (as stated): after 5 observations the refills happened at steps 1 and
\* 5 (zero-indexed) and generate_actions ran exactly twice.
C6_Original ==
    (cfg.n_obs_steps = 2 /\ cfg.horizon = 8 /\ cfg.n_action_steps = 4 /\ calls = 5) =>
      /\ refills = {1, 5}
      /\ genCount - genAtReset = 2

\* C6 (amended): after 5 observations the refills happened at steps 0 and 4
\* (zero-indexed: the first and the fifth call) and generate_actions ran
\* exactly twice.
C6_RefillSteps ==
    (cfg.n_obs_steps = 2 /\ cfg.horizon = 8 /\ cfg.n_action_steps = 4 /\ calls = 5) =>
      /\ refills = {0, 4}
      /\ genCount - genAtReset = 2

C6_Witness ==
    /\ cfg.n_obs_steps = 2 /\ cfg.horizon = 8 /\ cfg.n_action_steps = 4
    /\ calls = 5
    /\ Selected
    /\ last.sampled
    /\ Len(queues[ACTION_KEY]) = 3

(***************************************************************************)
(* Properties of the selectors                                             *)
(***************************************************************************)
Supported(kind) ==
    CASE kind = "noise_scheduler_type" -> sel.noise_scheduler_type \in {"DDPM", "DDIM"}
      [] kind = "prediction_type" -> sel.prediction_type \in {"epsilon", "sample"}
      [] kind = "feedforward_activation" -> sel.feedforward_activation \in {"relu", "gelu", "glu"}
      [] kind = "vision_backbone_norm_name" ->
            sel.vision_backbone_norm_name \in {"batch_norm", "group_norm", "diffusion_policy"}
      [] kind = "vision_backbone_size" -> sel.vision_backbone_size \in {18, 34, 50}

\* C10: a selector applied to an unsupported value raises and to a supported
\* value gives that value's variant: DDPM only for "DDPM", DDIM only for
\* "DDIM"; the noise as target only for "epsilon", the clean trajectory only
\* for "sample"; a DiT is constructed only when every selector its
\* construction reads is supported.
C10_NoSilentDefault ==
    /\ sel.kind \in {"noise_scheduler_type", "prediction_type", "feedforward_activation",
                     "vision_backbone_norm_name", "vision_backbone_size"} =>
         (sel.outcome \in Errors <=> ~Supported(sel.kind))
    /\ sel.kind = "noise_scheduler_type" =>
         /\ sel.outcome = "DDPMScheduler" <=> sel.noise_scheduler_type = "DDPM"
         /\ sel.outcome = "DDIMScheduler" <=> sel.noise_scheduler_type = "DDIM"
         /\ sel.outcome \in {"DDPMScheduler", "DDIMScheduler", "ValueError"}
    /\ sel.kind = "prediction_type" =>
         /\ sel.outcome = "eps" <=> sel.prediction_type = "epsilon"
         /\ sel.outcome = "batch[action]" <=> sel.prediction_type = "sample"
         /\ sel.outcome \in {"eps", "batch[action]", "ValueError"}
    /\ sel.kind = "feedforward_activation" =>
         /\ sel.outcome = "F.relu" <=> sel.feedforward_activation = "relu"
         /\ sel.outcome = "nn.GELU" <=> sel.feedforward_activation = "gelu"
         /\ sel.outcome = "F.glu" <=> sel.feedforward_activation = "glu"
    /\ sel.kind = "vision_backbone_norm_name" =>
         /\ sel.outcome = "nn.BatchNorm2d" <=> sel.vision_backbone_norm_name = "batch_norm"
         /\ sel.outcome = "GroupNorm(norm_num_groups)" <=> sel.vision_backbone_norm_name = "group_norm"
         /\ sel.outcome = "GroupNorm(num_channels/16)" <=> sel.vision_backbone_norm_name = "diffusion_policy"
    /\ sel.kind = "vision_backbone_size" =>
         /\ sel.outcome = "resnet18" <=> sel.vision_backbone_size = 18
         /\ sel.outcome = "resnet34" <=> sel.vision_backbone_size = 34
         /\ sel.outcome = "resnet50" <=> sel.vision_backbone_size = 50
    /\ sel.kind = "DiT" =>
         /\ sel.outcome \in Errors \cup {"constructed"}
         /\ sel.outcome = "constructed" <=>
              /\ Supported("noise_scheduler_type")
              /\ Supported("feedforward_activation")
              /\ sel.image_features =>
                   (Supported("vision_backbone_norm_name") /\ Supported("vision_backbone_size"))

C10_Witness ==
    /\ sel.kind = "noise_scheduler_type"
    /\ sel.noise_scheduler_type = "DPM"
    /\ sel.outcome = "ValueError"
    /\ sel.prediction_type = "v_prediction"

(***************************************************************************)
(* Properties of compute_loss                                              *)
(***************************************************************************)
\* the keys compute_loss reads under configuration c
RequiredKeys(c) ==
    {OBS_ROBOT, ACTION_KEY, ACTION_IS_PAD}
      \cup (IF c.image_features THEN {OBS_IMAGES} ELSE {})
      \cup (IF c.env_state_feature THEN {OBS_ENV} ELSE {})

ContractViolation(c, batch) ==
    \/ ~(RequiredKeys(c) \subseteq batch.keys)
    \/ (OBS_IMAGES \notin batch.keys /\ OBS_ENV \notin batch.keys)
    \/ (ACTION_KEY \in batch.keys /\ batch.horizon # c.horizon)
    \/ (OBS_ROBOT \in batch.keys /\ batch.n_obs_steps # c.n_obs_steps)

\* C11: a compute_loss call on a batch that lacks a required key, or whose
\* action length is not the horizon, or whose observation length is not
\* n_obs_steps, raises before any encoder, any noise or timestep sampling
\* and the denoising network have run.
C11_FailFast ==
    (loss.op = "compute_loss" /\ ContractViolation(cfg, loss.batch)) =>
      (loss.raised /\ loss.trace = <<>>)

\* what holds of the code: a violation always raises, and raises before
\* any computation when the input validation itself rejects the batch
C11_ValidationFirst ==
    loss.op = "compute_loss" =>
      /\ ContractViolation(cfg, loss.batch) => loss.raised
      /\ ~input_validation(cfg, loss.batch) => (loss.error = "AssertionError" /\ loss.trace = <<>>)

(***************************************************************************)
(* Properties of the freshly constructed network                           *)
(***************************************************************************)
Constructed == net.op \in {"constructed", "forward_dec"}

\* C12: at the end of construction every parameter of the output head
\* (linear and adaLN modulation, weights and biases) is zero.
C12_HeadZeroInit ==
    Constructed => \A p \in FinalLayerParams : net.eps_out[p] = "zeros"

RatEq(a, b) == a[1] * b[2] = b[1] * a[2]

\* mean over the token axis of the cache for batch element b, plus t[b]
TokenMeanPlusTime(cache, t, b) ==
    <<SumSeq([i \in 1..Len(cache) |-> cache[i][b]]) + Len(cache) * t[b], Len(cache)>>

\* C13: in a forward_dec call the output head's cond_sig is, for every batch
\* element b, the one the decoder layers compute: the mean of the cache over
\* its token axis for b plus b's time embedding.
C13_HeadCondSig ==
    net.op = "forward_dec" =>
      \A b \in 1..batch_size :
        /\ RatEq(net.head_sig[b], net.layer_sig[b])
        /\ RatEq(net.head_sig[b], TokenMeanPlusTime(net.cache, net.t, b))

\* what holds of the code: the decoder layers compute the token mean
C13_LayerCondSig ==
    net.op = "forward_dec" =>
      \A b \in 1..batch_size :
        RatEq(net.layer_sig[b], TokenMeanPlusTime(net.cache, net.t, b))

\* C14: at the end of DiTDecoder construction attn_mod2 and mlp_mod2 of every
\* layer have zero weight and zero bias (the zeroing follows the Xavier pass),
\* and the fresh decoder returns its input tokens unchanged for every time
\* embedding and conditioning cache.
C14_ZeroScaleInit ==
    /\ Constructed =>
         /\ Len(net.decoder) = net.n_layers
         /\ \A i \in 1..Len(net.decoder) : \A mod \in ZeroScaleMods :
              /\ net.decoder[i][mod \o ".scale.weight"] = "zeros"
              /\ net.decoder[i][mod \o ".scale.bias"] = "zeros"
    /\ net.op = "forward_dec" => net.dec_out = net.x

C14_Witness ==
    /\ net.op = "forward_dec"
    /\ net.n_layers >= 2
    /\ batch_size >= 2
    /\ Len(net.cache) >= 2
    /\ net.cache[1] # net.cache[2]
    /\ net.t[1] # net.t[2]
    /\ net.decoder[2]["attn_mod1.scale.weight"] = "xavier"

(***************************************************************************)
(* Queue sizes, and calls that fail                                        *)
(***************************************************************************)
\* Between operations every observation queue holds 0 entries (exactly
\* when no select_action has run since construction or the last reset) or
\* n_obs_steps entries, and the action queue holds 0 .. n_action_steps-1
\* entries; a refill finds the action queue empty and keeps every action it
\* was given, so no queued action is evicted.
C15_Sizes ==
    pc = "ready" =>
      /\ \A k \in ObsKeysOf(cfg) :
           /\ Len(queues[k]) \in {0, cfg.n_obs_steps}
           /\ Len(queues[k]) = 0 <=> calls = 0
      /\ Len(queues[ACTION_KEY]) \in 0..(cfg.n_action_steps - 1)
      /\ (Selected /\ last.sampled) =>
           /\ last.qlen = 0
           /\ Len(last.actions) <= cfg.n_action_steps
           /\ last.enqueued = Len(last.actions)

\* a select_action call that returns removes from the action queue, counting
\* what it enqueued, the returned action and nothing else
C15_NoEviction ==
    (last'.op = "select_action" /\ last'.index = calls /\ ~last'.raised) =>
      queues[ACTION_KEY]
          \o (IF last'.sampled THEN unnormalize_outputs(last'.actions) ELSE <<>>)
        = last'.result \o queues'[ACTION_KEY]

\* C15: between operations every observation queue holds 0 or n_obs_steps
\* entries (0 exactly when no select_action has run since construction or the
\* last reset), the action queue holds 0 .. n_action_steps-1 entries, no queue
\* exceeds its capacity, and select_action drops no queued action unreturned.
C15_QueueSizes == []C15_Sizes /\ [][C15_NoEviction]_vars

C15_Witness ==
    /\ Selected
    /\ last.sampled
    /\ last.index > 0
    /\ resets = 1
    /\ cfg.n_obs_steps = 2
    /\ cfg.n_action_steps = 3
    /\ Len(queues[ACTION_KEY]) = 2
    /\ queues[OBS_ROBOT][1].obs # queues[OBS_ROBOT][2].obs

\* after a call that failed: nothing returned, the action queue empty, the
\* call's observation the newest entry of every observation queue
C16_State ==
    (Selected /\ last.raised) =>
      /\ last.sampled
      /\ last.result = <<>>
      /\ queues[ACTION_KEY] = <<>>
      /\ \A k \in ObsKeysOf(cfg) :
           /\ Len(queues[k]) = cfg.n_obs_steps
           /\ queues[k][cfg.n_obs_steps] = Entry(k, history[Len(history)], resets, TRUE)
           /\ last.window[k] = queues[k]

\* this step is the call that follows a failed call, with the same observation
IsRetry ==
    /\ Selected
    /\ last.raised
    /\ last'.op = "select_action"
    /\ last'.index = last.index + 1
    /\ history'[Len(history')] = history[Len(history)]

C16_RetryDiffers ==
    (IsRetry /\ cfg.n_obs_steps >= 2 /\ last.index > 0) =>
      /\ last'.sampled
      /\ \A k \in ObsKeysOf(cfg) : last'.window[k] # last.window[k]

C16_RetryWindow ==
    IsRetry =>
      /\ last'.sampled
      /\ \A k \in ObsKeysOf(cfg) :
           LET w == last.window[k]
               n == cfg.n_obs_steps
           IN /\ last'.window[k] = Tail(w) \o <<w[n]>>
              /\ last'.window[k] # w <=> (\E i \in 1..n : w[i] # w[n])

\* C16 (as stated): a call whose generate_actions raises returns nothing and
\* leaves the action queue empty and its observation queued; a retry with
\* the same observation queues it again and, for n_obs_steps >= 2 outside
\* cold start, samples from a window different from the failed call's.
C16_Original == []C16_State /\ [][C16_RetryDiffers]_vars

\* C16 (amended): a call whose generate_actions raises returns nothing and
\* leaves the action queue empty and its observation queued; a retry with
\* the same observation queues it again, so the retried sampling call sees
\* the failed call's window shifted by one with the observation repeated,
\* which differs from the failed call's window unless that window already
\* held the observation in every entry.
C16_NotAtomic == []C16_State /\ [][C16_RetryWindow]_vars

C16_Witness ==
    /\ Selected
    /\ last.sampled
    /\ ~last.raised
    /\ cfg.n_obs_steps = 2
    /\ cfg.n_action_steps = 2
    /\ calls = 4
    /\ refills = {0, 3}
    /\ history[4] = history[3]
    /\ history[2] # history[3]

====
